---- MODULE Spec2Model ----
(***************************************************************************)
(* Model of the estimate dashboard of estimia (ResultsDashboard in         *)
(* src/components/InputSection.tsx): the Rate Store (roleRates), the       *)
(* aggregation engine (the useMemo core calculation), the duration         *)
(* resolver (calculatedWeeks, maxDuration) and the roadmap bar placement.  *)
(*                                                                         *)
(* JavaScript numbers are modelled as records [nan, v]: v counts units of  *)
(* 1/Unit (fixed point, exact for the decimals the model uses), nan marks  *)
(* NaN, which every arithmetic operation propagates.  Strings that the     *)
(* code inspects character by character (role labels, the text typed into  *)
(* a rate field) are sequences of one-character strings.                   *)
(***************************************************************************)
EXTENDS Integers, Sequences, FiniteSets, TLC

(***************************************************************************)
(* Bounds of the model.                                                    *)
(***************************************************************************)
FracDigits == 1      \* decimal digits kept after the point
MaxTasks == 2        \* tasks of an enumerated document, over all its phases
MaxIntervals == 2    \* roadmap intervals of an enumerated roadmap
MaxWeek == 2         \* largest start/end week of an enumerated interval

RECURSIVE Pow10(_)
Pow10(n) == IF n <= 0 THEN 1 ELSE 10 * Pow10(n - 1)

Unit == Pow10(FracDigits)

(***************************************************************************)
(* JavaScript numbers.                                                     *)
(***************************************************************************)
NaN == [nan |-> TRUE, v |-> 0]
Fixed(n) == [nan |-> FALSE, v |-> n]
Whole(n) == Fixed(n * Unit)
Zero == Whole(0)

Add(a, b) == IF a.nan \/ b.nan THEN NaN ELSE Fixed(a.v + b.v)
\* the model multiplies a whole number of hours by a rate, so \div is exact
Mul(a, b) == IF a.nan \/ b.nan THEN NaN ELSE Fixed((a.v * b.v) \div Unit)
\* JavaScript truthiness of a number: 0 and NaN are falsy
Truthy(a) == ~a.nan /\ a.v # 0

(***************************************************************************)
(* Characters.                                                             *)
(***************************************************************************)
Digits == {"0", "1", "2", "3", "4", "5", "6", "7", "8", "9"}
DigitVal(c) ==
  CASE c = "0" -> 0 [] c = "1" -> 1 [] c = "2" -> 2 [] c = "3" -> 3
    [] c = "4" -> 4 [] c = "5" -> 5 [] c = "6" -> 6 [] c = "7" -> 7
    [] c = "8" -> 8 [] c = "9" -> 9
WhiteSpace == {" ", "\t", "\n"}
UpperCase == <<"A", "B", "C", "D", "E", "F", "G", "H", "I", "J", "K", "L", "M",
               "N", "O", "P", "Q", "R", "S", "T", "U", "V", "W", "X", "Y", "Z">>
LowerCase == <<"a", "b", "c", "d", "e", "f", "g", "h", "i", "j", "k", "l", "m",
               "n", "o", "p", "q", "r", "s", "t", "u", "v", "w", "x", "y", "z">>
LowerOf ==
  [c \in {UpperCase[i] : i \in 1..Len(UpperCase)} |->
     LowerCase[CHOOSE i \in 1..Len(UpperCase) : UpperCase[i] = c]]
ToLowerChar(c) == IF c \in DOMAIN LowerOf THEN LowerOf[c] ELSE c

Str0 == <<>>   \* the empty string ''

(***************************************************************************)
(* sanitizeRole: role.replace(/\s+/g, '_').toLowerCase()                   *)
(***************************************************************************)
RECURSIVE ReplaceSpaceRuns(_, _)
\* every maximal run of whitespace from position i on becomes one '_'
ReplaceSpaceRuns(s, i) ==
  IF i > Len(s) THEN <<>>
  ELSE IF s[i] \in WhiteSpace
       THEN IF i > 1 /\ s[i - 1] \in WhiteSpace
            THEN ReplaceSpaceRuns(s, i + 1)
            ELSE <<"_">> \o ReplaceSpaceRuns(s, i + 1)
       ELSE <<s[i]>> \o ReplaceSpaceRuns(s, i + 1)

ToLowerCase(s) == [i \in 1..Len(s) |-> ToLowerChar(s[i])]

sanitizeRole(role) == ToLowerCase(ReplaceSpaceRuns(role, 1))

(***************************************************************************)
(* The rate field's pattern /^\d*\.?\d*$/ and JavaScript's Number(string). *)
(***************************************************************************)
RECURSIVE SkipDigits(_, _)
\* the first position from i on that holds no digit (Len(s) + 1 if none)
SkipDigits(s, i) ==
  IF i <= Len(s) /\ s[i] \in Digits THEN SkipDigits(s, i + 1) ELSE i

SkipDot(s, i) == IF i <= Len(s) /\ s[i] = "." THEN i + 1 ELSE i

\* /^\d*\.?\d*$/.test(s)
MatchesRatePattern(s) ==
  SkipDigits(s, SkipDot(s, SkipDigits(s, 1))) = Len(s) + 1

RECURSIVE DigitsValue(_, _, _)
\* the integer written by the digits s[from..to-1]
DigitsValue(s, from, to) ==
  IF to <= from THEN 0
  ELSE 10 * DigitsValue(s, from, to - 1) + DigitVal(s[to - 1])

RECURSIVE FractionValue(_, _, _, _)
\* the digits s[from..to-1] read as a fraction, in units of 1/Unit; k is the
\* place of s[from]; places beyond FracDigits are dropped
FractionValue(s, from, to, k) ==
  IF to <= from \/ k > FracDigits THEN 0
  ELSE DigitVal(s[from]) * Pow10(FracDigits - k)
       + FractionValue(s, from + 1, to, k + 1)

RECURSIVE TrimStart(_)
TrimStart(s) ==
  IF Len(s) > 0 /\ s[1] \in WhiteSpace THEN TrimStart(Tail(s)) ELSE s

RECURSIVE TrimEnd(_)
TrimEnd(s) ==
  IF Len(s) > 0 /\ s[Len(s)] \in WhiteSpace
  THEN TrimEnd(SubSeq(s, 1, Len(s) - 1)) ELSE s

\* Number(s) for a string s: white space is trimmed, '' is 0, a decimal
\* literal with optional sign and exponent is its value, anything else NaN
\* (hexadecimal, binary, octal and Infinity literals are not modelled).
\* The literal is read left to right: sign, integer part m0..m1, point,
\* fraction m2..m3, exponent e0..e1.
Signed(t, mag) == Fixed(IF t[1] = "-" THEN 0 - mag ELSE mag)

Scaled(mant, negExp, exponent) ==
  IF negExp THEN mant \div Pow10(exponent) ELSE mant * Pow10(exponent)

NumberFromExponent(t, mant, negExp, e0, e1) ==
  IF e1 > e0 /\ e1 = Len(t) + 1
  THEN Signed(t, Scaled(mant, negExp, DigitsValue(t, e0, e1)))
  ELSE NaN

NumberFromExpSign(t, mant, negExp, e0) ==
  NumberFromExponent(t, mant, negExp, e0, SkipDigits(t, e0))

NumberFromMantissa(t, mant, m3) ==
  IF m3 = Len(t) + 1 THEN Signed(t, mant)
  ELSE IF t[m3] \in {"e", "E"}
       THEN IF m3 + 1 <= Len(t) /\ t[m3 + 1] \in {"-", "+"}
            THEN NumberFromExpSign(t, mant, t[m3 + 1] = "-", m3 + 2)
            ELSE NumberFromExpSign(t, mant, FALSE, m3 + 1)
       ELSE NaN

NumberFromFraction(t, m0, m1, m2, m3) ==
  IF m1 > m0 \/ m3 > m2
  THEN NumberFromMantissa(t,
         DigitsValue(t, m0, m1) * Unit + FractionValue(t, m2, m3, 1), m3)
  ELSE NaN

NumberFromPoint(t, m0, m1, m2) ==
  NumberFromFraction(t, m0, m1, m2, SkipDigits(t, m2))

NumberFromInteger(t, m0, m1) == NumberFromPoint(t, m0, m1, SkipDot(t, m1))

NumberFromSign(t, m0) == NumberFromInteger(t, m0, SkipDigits(t, m0))

NumberOfTrimmed(t) ==
  IF Len(t) = 0 THEN Zero
  ELSE NumberFromSign(t, IF t[1] \in {"-", "+"} THEN 2 ELSE 1)

StringToNumber(s) == NumberOfTrimmed(TrimEnd(TrimStart(s)))

(***************************************************************************)
(* Estimate documents (EstimationResult, src/unnamed/part_000).  Only the  *)
(* fields the dashboard computes with are kept.                            *)
(***************************************************************************)
RoleQA == <<"Q", "A">>
RoleQaLower == <<"q", "a">>              \* the same role, other letter case
RoleUX == <<"U", "X", " ", "D">>
RolePO == <<"P", "O">>                   \* in costBreakdown only, on no task
RoleUXTab == <<"U", "X", "\t", " ", "D">> \* "UX D" with other whitespace
RoleUXUnderscore == <<"U", "X", "_", "D">>
RoleQATrailing == <<"Q", "A", " ">>

\* FIXED_ROLES
FIXED_ROLES ==
  << <<"P","r","o","d","u","c","t"," ","O","w","n","e","r">>,
     <<"B","a","c","k","-","e","n","d"," ","D","e","v","e","l","o","p","e","r">>,
     <<"F","r","o","n","t","-","e","n","d"," ","D","e","v","e","l","o","p","e","r">>,
     <<"Q","A"," ","E","n","g","i","n","e","e","r">>,
     <<"U","I","/","U","X"," ","D","e","s","i","g","n","e","r">> >>

\* PhaseTask: hours, assignedRole, hourlyRate (the AI-supplied rate)
Task(role, hours, rate) ==
  [assignedRole |-> role, hours |-> Whole(hours), hourlyRate |-> Whole(rate)]

TaskQA == Task(RoleQA, 10, 55)
TaskQaLower == Task(RoleQaLower, 30, 40)
TaskUX == Task(RoleUX, 20, 45)
TaskNoHours == Task(RoleUX, 0, 45)
TaskVariants == { TaskQA, TaskQaLower, TaskUX, TaskNoHours }
TaskUXTab == Task(RoleUXTab, 10, 50)
TaskUXUnderscore == Task(RoleUXUnderscore, 10, 50)
TaskQATrailing == Task(RoleQATrailing, 10, 50)

\* PhaseEstimate: estimatedHours and estimatedCost are the AI's own figures
AiPhaseCost == Whole(999)
Phase(tasks) ==
  [estimatedHours |-> Whole(8), estimatedCost |-> AiPhaseCost, tasks |-> tasks]

TaskSeqs(k) == [1..k -> TaskVariants]

RECURSIVE PhaseLists(_)
\* the lists of phases, each with at least one task, of at most n tasks in all
PhaseLists(n) ==
  {<<>>} \cup
  UNION { { <<Phase(ts)>> \o rest : ts \in TaskSeqs(k), rest \in PhaseLists(n - k) }
          : k \in 1..n }

\* CostBreakdownItem: role, hourlyRate
CostItem(role, rate) == [role |-> role, hourlyRate |-> Whole(rate)]

\* RoadmapItem: startWeek, endWeek
Interval(s, e) == [startWeek |-> s, endWeek |-> e]
Intervals == { Interval(s, e) : s \in 0..MaxWeek, e \in 0..MaxWeek }
EnumeratedRoadmaps == UNION { [1..n -> Intervals] : n \in 0..MaxIntervals }
\* Design 1-2, Backend 3-6, Frontend 3-6, QA 7-8
ParallelRoadmap ==
  <<Interval(1, 2), Interval(3, 6), Interval(3, 6), Interval(7, 8)>>
InvertedRoadmap == <<Interval(5, 2)>>
FiveWeekRoadmap == <<Interval(1, 5)>>

Document(cb, phases, roadmap, durMax) ==
  [costBreakdown |-> cb, phases |-> phases, roadmap |-> roadmap,
   totalEstimatedDurationWeeks |-> [min |-> 0, max |-> durMax]]

\* documents that vary the phases, the tasks and the role rates; each frame
\* is a costBreakdown with a roadmap
DocumentFrames ==
  { [cb |-> <<>>, rm |-> <<>>],
    [cb |-> <<CostItem(RoleQA, 0), CostItem(RoleUX, 70), CostItem(RolePO, 60)>>,
     rm |-> <<Interval(1, 3)>>] }
\* some documents of two phases with more tasks than MaxTasks
LongPhaseLists ==
  { <<Phase(<<TaskQA, TaskUX>>), Phase(<<TaskQaLower>>)>>,
    <<Phase(<<TaskUX>>), Phase(<<TaskQA, TaskQaLower>>)>>,
    <<Phase(<<TaskQA, TaskNoHours>>), Phase(<<TaskUX, TaskQaLower>>)>> }
\* some documents whose tasks write a role in two ways
RelabelledPhaseLists ==
  { <<Phase(<<TaskUX, TaskUXTab>>)>>,
    <<Phase(<<TaskUX>>), Phase(<<TaskUXUnderscore>>)>>,
    <<Phase(<<TaskQA, TaskQATrailing>>)>> }
RateDocuments ==
  { Document(f.cb, ph, f.rm, 4) :
      f \in DocumentFrames,
      ph \in (PhaseLists(MaxTasks) \ {<<>>}) \cup LongPhaseLists
               \cup RelabelledPhaseLists }

\* documents that vary the roadmap, the advisory duration and the hours;
\* LongDuration is an advisory duration that spans three months
LongDuration == 10
OneTaskPhases(h) == <<Phase(<<Task(RoleQA, h, 55)>>)>>
RoadmapDocuments ==
  { Document(<<>>, OneTaskPhases(10), rm, dm) :
      rm \in (EnumeratedRoadmaps
                \cup {ParallelRoadmap, InvertedRoadmap, FiveWeekRoadmap}) \ {<<>>},
      dm \in 0..(MaxWeek + 1) }
  \cup
  { Document(<<>>, OneTaskPhases(h), <<>>, dm) :
      h \in {0, 10, 24, 25, 48}, dm \in 0..(MaxWeek + 1) }
  \cup
  { Document(<<>>, OneTaskPhases(10), <<>>, LongDuration) }

(***************************************************************************)
(* The Rate Store: roleRates, Record<string, string | number>.  An entry   *)
(* holds a number (from the document) or the string typed by the user; a   *)
(* key outside the domain reads as undefined.                              *)
(***************************************************************************)
NumEntry(n) == [isStr |-> FALSE, str |-> Str0, num |-> n]
StrEntry(s) == [isStr |-> TRUE, str |-> s, num |-> Zero]
EmptyStore == [k \in {} |-> NumEntry(Zero)]
Has(rr, key) == key \in DOMAIN rr
Put(rr, key, entry) ==
  IF Has(rr, key) THEN [rr EXCEPT ![key] = entry] ELSE rr @@ (key :> entry)

\* Number(x) for a store entry
EntryToNumber(entry) ==
  IF entry.isStr THEN StringToNumber(entry.str) ELSE entry.num

\* !initialRates[key]: undefined, 0, NaN and '' are falsy
FalsyAt(rr, key) ==
  \/ ~Has(rr, key)
  \/ IF rr[key].isStr THEN rr[key].str = Str0 ELSE ~Truthy(rr[key].num)

RECURSIVE RatesFromBreakdown(_, _, _)
\* data.costBreakdown.forEach(item => initialRates[key] = item.hourlyRate)
RatesFromBreakdown(cb, i, rates) ==
  IF i > Len(cb) THEN rates
  ELSE RatesFromBreakdown(cb, i + 1,
         Put(rates, sanitizeRole(cb[i].role), NumEntry(cb[i].hourlyRate)))

\* const key = ...; if (!initialRates[key]) initialRates[key] = task.hourlyRate
RateFromTask(task, key, rates) ==
  IF FalsyAt(rates, key) THEN Put(rates, key, NumEntry(task.hourlyRate))
  ELSE rates

RECURSIVE RatesFromTasks(_, _, _)
\* phase.tasks.forEach(task => if (!initialRates[key]) initialRates[key] = ...)
RatesFromTasks(tasks, i, rates) ==
  IF i > Len(tasks) THEN rates
  ELSE RatesFromTasks(tasks, i + 1,
         RateFromTask(tasks[i], sanitizeRole(tasks[i].assignedRole), rates))

RECURSIVE RatesFromPhases(_, _, _)
RatesFromPhases(phases, i, rates) ==
  IF i > Len(phases) THEN rates
  ELSE RatesFromPhases(phases, i + 1, RatesFromTasks(phases[i].tasks, 1, rates))

\* the initialRates the mount effect hands to setRoleRates
InitialRates(d) ==
  RatesFromPhases(d.phases, 1, RatesFromBreakdown(d.costBreakdown, 1, EmptyStore))

(***************************************************************************)
(* The aggregation engine: the useMemo core calculation.                   *)
(***************************************************************************)
\* rawRate !== undefined && rawRate !== '' ? Number(rawRate)
\*                                         : (rawRate === '' ? 0 : task.hourlyRate)
\* faulty variant of RateOf: a cleared entry is treated like an unset one
RateOfClearedAsUnset(task, rr, roleKey) ==
  IF Has(rr, roleKey) /\ ~(rr[roleKey].isStr /\ rr[roleKey].str = Str0)
  THEN EntryToNumber(rr[roleKey])
  ELSE task.hourlyRate

\* faulty variant of RateOf: an unset entry is treated like a cleared one
RateOfUnsetAsCleared(task, rr, roleKey) ==
  IF Has(rr, roleKey) /\ ~(rr[roleKey].isStr /\ rr[roleKey].str = Str0)
  THEN EntryToNumber(rr[roleKey])
  ELSE Zero

RateOf(task, rr, roleKey) ==
  IF Has(rr, roleKey) /\ ~(rr[roleKey].isStr /\ rr[roleKey].str = Str0)
  THEN EntryToNumber(rr[roleKey])
  ELSE IF Has(rr, roleKey) THEN Zero ELSE task.hourlyRate

EffectiveRate(task, rr) == RateOf(task, rr, sanitizeRole(task.assignedRole))

\* breakdownMap is an object: a sequence of its entries in insertion order
BreakdownHas(bm, key) == \E j \in 1..Len(bm) : bm[j].key = key

\* if (!breakdownMap[roleKey]) breakdownMap[roleKey] = { hours: 0, cost: 0, role }
BreakdownEnsure(bm, key, role) ==
  IF BreakdownHas(bm, key) THEN bm
  ELSE Append(bm, [key |-> key, hours |-> Zero, cost |-> Zero, role |-> role])

\* breakdownMap[roleKey].hours += task.hours; breakdownMap[roleKey].cost += taskCost
BreakdownBump(bm, key, hours, cost) ==
  [bm EXCEPT ![CHOOSE j \in 1..Len(bm) : bm[j].key = key] =
     [@ EXCEPT !.hours = Add(@, hours), !.cost = Add(@, cost)]]

BreakdownAdd(bm, key, role, hours, cost) ==
  BreakdownBump(BreakdownEnsure(bm, key, role), key, hours, cost)

\* the aggregation of one task; acc holds phaseCost, breakdownMap, totalCost,
\* totalHours and rows, the rate and taskCost of every task so far
Aggregate(task, roleKey, rate, taskCost, acc) ==
  [phaseCost |-> Add(acc.phaseCost, taskCost),
   rows |-> Append(acc.rows, [rate |-> rate, cost |-> taskCost]),
   breakdownMap |-> BreakdownAdd(acc.breakdownMap, roleKey, task.assignedRole,
                                 task.hours, taskCost),
   totalHours |-> Add(acc.totalHours, task.hours),
   totalCost |-> Add(acc.totalCost, taskCost)]

\* const taskCost = task.hours * rate
WithTaskCost(task, roleKey, rate, acc) ==
  Aggregate(task, roleKey, rate, Mul(task.hours, rate), acc)

\* const roleKey = sanitizeRole(task.assignedRole); const rate = ...
WithRoleKey(task, roleKey, rr, acc) ==
  WithTaskCost(task, roleKey, RateOf(task, rr, roleKey), acc)

\* faulty variant of ProcessTask: the role label itself serves as the key
ProcessTaskByLabel(task, rr, acc) ==
  WithRoleKey(task, task.assignedRole, rr, acc)

\* the body of phase.tasks.forEach
ProcessTask(task, rr, acc) ==
  WithRoleKey(task, sanitizeRole(task.assignedRole), rr, acc)

RECURSIVE ProcessTasks(_, _, _, _)
ProcessTasks(tasks, i, rr, acc) ==
  IF i > Len(tasks) THEN acc
  ELSE ProcessTasks(tasks, i + 1, rr, ProcessTask(tasks[i], rr, acc))

\* return { ...phase, estimatedCost: phaseCost }
ProcessedPhase(phase, phaseCost) == [phase EXCEPT !.estimatedCost = phaseCost]

\* the result of one call of the map callback; r is what the forEach left
PhaseDone(phase, acc, r) ==
  [processedPhases |->
     Append(acc.processedPhases, ProcessedPhase(phase, r.phaseCost)),
   taskRows |-> Append(acc.taskRows, r.rows),
   breakdownMap |-> r.breakdownMap,
   totalHours |-> r.totalHours, totalCost |-> r.totalCost]

\* the callback of data.phases.map: let phaseCost = 0; phase.tasks.forEach(...)
ProcessPhase(phase, rr, acc) ==
  PhaseDone(phase, acc,
    ProcessTasks(phase.tasks, 1, rr,
      [phaseCost |-> Zero, rows |-> <<>>, breakdownMap |-> acc.breakdownMap,
       totalHours |-> acc.totalHours, totalCost |-> acc.totalCost]))

RECURSIVE ProcessPhases(_, _, _, _)
\* data.phases.map(...); acc holds processedPhases, taskRows, breakdownMap,
\* totalCost and totalHours
ProcessPhases(phases, i, rr, acc) ==
  IF i > Len(phases) THEN acc
  ELSE ProcessPhases(phases, i + 1, rr, ProcessPhase(phases[i], rr, acc))

\* Number(roleRates[key]) || 0
OrZero(n) == IF Truthy(n) THEN n ELSE Zero
DisplayedRate(rr, key) ==
  OrZero(IF Has(rr, key) THEN EntryToNumber(rr[key]) ELSE NaN)

\* Object.values(breakdownMap).map(...)
BreakdownList(bm, rr) ==
  [j \in 1..Len(bm) |->
     [role |-> bm[j].role, totalHours |-> bm[j].hours,
      subtotalCost |-> bm[j].cost,
      hourlyRate |-> DisplayedRate(rr, sanitizeRole(bm[j].role))]]

\* what the useMemo callback returns (taskRows records its locals rate and
\* taskCost, task by task)
CoreResult(r, rr) ==
  [calculatedBreakdown |-> BreakdownList(r.breakdownMap, rr),
   totalCalculatedCost |-> r.totalCost,
   totalCalculatedHours |-> r.totalHours,
   phasesWithDynamicCost |-> r.processedPhases,
   taskRows |-> r.taskRows]

CoreCalculation(d, rr) ==
  CoreResult(ProcessPhases(d.phases, 1, rr,
               [processedPhases |-> <<>>, taskRows |-> <<>>,
                breakdownMap |-> <<>>, totalHours |-> Zero, totalCost |-> Zero]),
             rr)

(***************************************************************************)
(* PhaseCard and the HTML export: each resolves the rate of a task with    *)
(* its own copy of the expression of the engine.                           *)
(***************************************************************************)
\* faulty variant of PhaseCardRate: a cleared entry falls back to the rate
\* of the task
PhaseCardRateClearedAsUnset(task, rr) ==
  IF Has(rr, sanitizeRole(task.assignedRole))
       /\ ~(rr[sanitizeRole(task.assignedRole)].isStr
              /\ rr[sanitizeRole(task.assignedRole)].str = Str0)
  THEN EntryToNumber(rr[sanitizeRole(task.assignedRole)])
  ELSE task.hourlyRate

\* PhaseCard: const rawRate = roleRates[sanitizeRole(task.assignedRole)];
\* const rate = rawRate !== undefined && rawRate !== '' ? Number(rawRate)
\*                : (rawRate === '' ? 0 : task.hourlyRate)
PhaseCardRate(task, rr) ==
  IF Has(rr, sanitizeRole(task.assignedRole))
       /\ ~(rr[sanitizeRole(task.assignedRole)].isStr
              /\ rr[sanitizeRole(task.assignedRole)].str = Str0)
  THEN EntryToNumber(rr[sanitizeRole(task.assignedRole)])
  ELSE IF Has(rr, sanitizeRole(task.assignedRole)) THEN Zero
  ELSE task.hourlyRate

\* { ...task, hourlyRate: rate, cost: task.hours * rate }
DynamicTask(task, rr) ==
  [assignedRole |-> task.assignedRole, hours |-> task.hours,
   hourlyRate |-> PhaseCardRate(task, rr),
   cost |-> Mul(task.hours, PhaseCardRate(task, rr))]

DynamicTasks(phase, rr) ==
  [j \in 1..Len(phase.tasks) |-> DynamicTask(phase.tasks[j], rr)]

RECURSIVE ReduceCost(_, _, _)
\* dynamicTasks.reduce((acc, t) => acc + t.cost, 0)
ReduceCost(tasks, i, acc) ==
  IF i > Len(tasks) THEN acc
  ELSE ReduceCost(tasks, i + 1, Add(acc, tasks[i].cost))

DynamicPhaseCost(phase, rr) == ReduceCost(DynamicTasks(phase, rr), 1, Zero)

\* handleDownloadHTML: const rawRate = roleRates[sanitizeRole(t.assignedRole)];
\* const tRate = ...; the row shows tRate and t.hours * tRate
ExportRate(t, rr) ==
  IF Has(rr, sanitizeRole(t.assignedRole))
       /\ ~(rr[sanitizeRole(t.assignedRole)].isStr
              /\ rr[sanitizeRole(t.assignedRole)].str = Str0)
  THEN EntryToNumber(rr[sanitizeRole(t.assignedRole)])
  ELSE IF Has(rr, sanitizeRole(t.assignedRole)) THEN Zero
  ELSE t.hourlyRate

ExportRow(t, rr) ==
  [tRate |-> ExportRate(t, rr), cost |-> Mul(t.hours, ExportRate(t, rr))]

\* phasesWithDynamicCost.map(p => ... p.tasks.map(t => ...))
ExportRows(phases, rr) ==
  [i \in 1..Len(phases) |->
     [j \in 1..Len(phases[i].tasks) |-> ExportRow(phases[i].tasks[j], rr)]]

(***************************************************************************)
(* Duration resolver and roadmap bar placement.  Weeks are integers.       *)
(***************************************************************************)
HoursPerWeek == 24

Max2(a, b) == IF a >= b THEN a ELSE b

RECURSIVE MaxEndWeek(_, _)
\* Math.max(...roadmap.map(r => r.endWeek)), for the items from i on of a
\* roadmap with at least one item
MaxEndWeek(roadmap, i) ==
  IF i >= Len(roadmap) THEN roadmap[i].endWeek
  ELSE Max2(roadmap[i].endWeek, MaxEndWeek(roadmap, i + 1))

\* Math.ceil(hours / 24), for a number of hours that is not NaN
CeilWeeks(hours) ==
  (hours.v + HoursPerWeek * Unit - 1) \div (HoursPerWeek * Unit)

\* faulty variant of CalculatedWeeks: the endWeek of the last item, as if the
\* roadmap were sorted
CalculatedWeeksOfLastItem(d, totalCalculatedHours) ==
  IF Len(d.roadmap) > 0 THEN d.roadmap[Len(d.roadmap)].endWeek
  ELSE CeilWeeks(totalCalculatedHours)

\* data.roadmap && data.roadmap.length > 0 ? Math.max(...) : Math.ceil(...)
CalculatedWeeks(d, totalCalculatedHours) ==
  IF Len(d.roadmap) > 0 THEN MaxEndWeek(d.roadmap, 1)
  ELSE CeilWeeks(totalCalculatedHours)

\* faulty variant of MaxDuration: the advisory maximum is left out
MaxDurationWithoutAdvisory(d, calculatedWeeks) ==
  Max2(calculatedWeeks,
       IF Len(d.roadmap) > 0 THEN MaxEndWeek(d.roadmap, 1) ELSE 0)

\* Math.max(durationWeeks.max, calculatedWeeks, roadmap max endWeek or 0)
MaxDuration(d, calculatedWeeks) ==
  Max2(d.totalEstimatedDurationWeeks.max,
       Max2(calculatedWeeks,
            IF Len(d.roadmap) > 0 THEN MaxEndWeek(d.roadmap, 1) ELSE 0))

\* const safeStart = Math.max(1, item.startWeek)
SafeStart(item) == Max2(1, item.startWeek)
\* faulty variant of SafeEnd: the endWeek as the document gives it
SafeEndUnclamped(item) == item.endWeek
\* const safeEnd = Math.max(safeStart, item.endWeek)
SafeEnd(item) == Max2(SafeStart(item), item.endWeek)

\* one bar of the roadmap: leftPercent is leftWeeks / maxDuration * 100 and
\* widthPercent is widthWeeks / maxDuration * 100
Bar(item) ==
  [safeStart |-> SafeStart(item), safeEnd |-> SafeEnd(item),
   leftWeeks |-> SafeStart(item) - 1,
   widthWeeks |-> SafeEnd(item) - SafeStart(item) + 1]

Bars(d) == [j \in 1..Len(d.roadmap) |-> Bar(d.roadmap[j])]

(***************************************************************************)
(* The calendar of the roadmap grid.  A date is a year, a month 1..12 and  *)
(* a day, in local time.                                                   *)
(***************************************************************************)
Date(y, m, d) == [year |-> y, month |-> m, day |-> d]

IsLeapYear(y) == (y % 4 = 0 /\ y % 100 # 0) \/ y % 400 = 0

\* faulty variant of DaysInMonth: every month counts four weeks
DaysInMonthFourWeeks(y, m) == 28

DaysInMonth(y, m) ==
  IF m = 2 THEN (IF IsLeapYear(y) THEN 29 ELSE 28)
  ELSE IF m \in {4, 6, 9, 11} THEN 30 ELSE 31

RECURSIVE NormalizedDate(_, _, _)
\* the date that new Date(y, m - 1, d) denotes when d >= 1 and 1 <= m <= 13:
\* days past the end of a month run on into the following months
NormalizedDate(y, m, d) ==
  IF m > 12 THEN NormalizedDate(y + 1, m - 12, d)
  ELSE IF d > DaysInMonth(y, m) THEN NormalizedDate(y, m + 1, d - DaysInMonth(y, m))
  ELSE Date(y, m, d)

\* new Date(now.getFullYear(), now.getMonth() + 1, 1)
ProjectStartDate(now) == NormalizedDate(now.year, now.month + 1, 1)

\* weekStartDate.setDate(projectStartDate.getDate() + (w - 1) * 7)
WeekStartDate(start, w) ==
  NormalizedDate(start.year, start.month, start.day + (w - 1) * 7)

\* the names of the months in the locale es-ES
MonthNames ==
  <<"enero", "febrero", "marzo", "abril", "mayo", "junio", "julio", "agosto",
    "septiembre", "octubre", "noviembre", "diciembre">>

\* date.toLocaleDateString('es-ES', { month: 'long', year: 'numeric' }),
\* "marzo de 2025", as the words of the label
formatMonth(date) == <<MonthNames[date.month], "de", date.year>>

\* the empty string that currentMonthLabel starts with
NoLabel == <<>>

\* groups.push({ monthLabel: currentMonthLabel, weeks: currentWeekList })
PushGroup(groups, label, weeks) ==
  Append(groups, [monthLabel |-> label, weeks |-> weeks])

\* one pass of the loop for week w with its monthLabel; acc holds groups,
\* currentMonthLabel and currentWeekList
PlaceWeek(acc, w, monthLabel) ==
  IF monthLabel # acc.currentMonthLabel
  THEN [groups |-> IF Len(acc.currentWeekList) > 0
                   THEN PushGroup(acc.groups, acc.currentMonthLabel,
                                  acc.currentWeekList)
                   ELSE acc.groups,
        currentMonthLabel |-> monthLabel,
        currentWeekList |-> <<w>>]
  ELSE [acc EXCEPT !.currentWeekList = Append(@, w)]

RECURSIVE PlaceWeeks(_, _, _, _)
\* for (let w = 1; w <= maxDuration; w++)
PlaceWeeks(acc, w, maxDuration, start) ==
  IF w > maxDuration THEN acc
  ELSE PlaceWeeks(PlaceWeek(acc, w, formatMonth(WeekStartDate(start, w))),
                  w + 1, maxDuration, start)

\* faulty variant of FinalGroups: the last group is not pushed
FinalGroupsWithoutLast(acc) == acc.groups

\* the push of the final group
FinalGroups(acc) ==
  IF Len(acc.currentWeekList) > 0
  THEN PushGroup(acc.groups, acc.currentMonthLabel, acc.currentWeekList)
  ELSE acc.groups

\* the callback of the timelineGroups useMemo
TimelineGroups(maxDuration, start) ==
  FinalGroups(PlaceWeeks([groups |-> <<>>, currentMonthLabel |-> NoLabel,
                          currentWeekList |-> <<>>],
                         1, maxDuration, start))

(***************************************************************************)
(* What a run of the core calculation leaves of the document it reads.     *)
(***************************************************************************)
\* faulty variant of PhaseLeft: phase.estimatedCost = phaseCost; return phase
PhaseWrittenInPlace(phase, phaseCost) ==
  [phase EXCEPT !.estimatedCost = phaseCost]

\* { ...phase, estimatedCost: phaseCost } is a new object; phase is not
\* written
PhaseLeft(phase, phaseCost) == phase

\* the document after the callback of data.phases.map has run over it
DocumentAfterRender(d, core) ==
  [d EXCEPT !.phases =
     [i \in 1..Len(d.phases) |->
        PhaseLeft(d.phases[i], core.phasesWithDynamicCost[i].estimatedCost)]]

(***************************************************************************)
(* One render of ResultsDashboard.                                         *)
(***************************************************************************)
\* faulty variant of CoreDeps: the dependency list [data]
CoreDepsDataOnly(d, rr) == <<d>>

\* the dependency list of the core useMemo: [data, roleRates]
CoreDeps(d, rr) == <<d, rr>>

\* useMemo: the callback runs again only when a dependency changed
MemoCore(prevCore, prevData, prevRates, d, rr) ==
  IF CoreDeps(prevData, prevRates) = CoreDeps(d, rr) THEN prevCore
  ELSE CoreCalculation(d, rr)

Rendered(core, d, calculatedWeeks) ==
  [core |-> core, calculatedWeeks |-> calculatedWeeks,
   maxDuration |-> MaxDuration(d, calculatedWeeks), bars |-> Bars(d)]

Render(core, d) ==
  Rendered(core, d, CalculatedWeeks(d, core.totalCalculatedHours))

(***************************************************************************)
(* The analysis service (analyzePRD) and the application state (App),      *)
(* src/unnamed/part_001.  A value that may be null or undefined is the     *)
(* sequence of at most one value.                                          *)
(***************************************************************************)
Null == <<>>
Some(v) == <<v>>

MsgNoApiKey == "API Key no configurada. Por favor verifica tu entorno."
MsgNoText == "No se pudo generar la estimación. Intenta de nuevo."
MsgNotJson == "Error al procesar la respuesta de la IA."
MsgUnexpected == "Ocurrió un error inesperado al analizar el PRD."

\* process.env.API_KEY: undefined, the empty string or a key
ApiKeys == { Null, Some(""), Some("key") }

\* !apiKey, !response.text
FalsyString(maybe) == maybe = Null \/ maybe = Some("")

\* the ProjectMetadata that the form passes to onAnalyze
Metadatas == { [requesterName |-> "Ana", date |-> "2025-02-10"] }

\* the documents that the service returns
AppDocuments ==
  { Document(<<CostItem(RoleQA, 60)>>, <<Phase(<<TaskQA>>)>>,
             <<Interval(1, 3)>>, 4),
    Document(<<>>, <<Phase(<<TaskQA>>), Phase(<<TaskUX>>)>>, <<>>, 2) }

\* response.text: undefined, '', a text that is no JSON, or the JSON text of
\* a document (json holds what JSON.parse makes of it)
NoJson == Document(<<>>, <<>>, <<>>, 0)
TextUndefined == [text |-> Null, json |-> Null]
TextEmpty == [text |-> Some(""), json |-> Null]
TextGarbage == [text |-> Some("Lo siento"), json |-> Null]
TextOfDocument(d) == [text |-> Some("{...}"), json |-> Some(d)]

\* the fields that EstimationResult requires and the dashboard dereferences
MandatoryFields ==
  { "costBreakdown", "phases", "roadmap", "totalEstimatedDurationWeeks" }

\* a JSON object that is document d without some of its fields
Without(d, fields) == [f \in DOMAIN d \ fields |-> d[f]]

\* JSON texts that parse but are no EstimationResult: {} and a document
\* without phases
OtherJson ==
  { Without(NoJson, MandatoryFields),
    Without(Document(<<>>, <<>>, <<Interval(1, 3)>>, 4), {"phases"}) }

ResponseTexts ==
  { TextUndefined, TextEmpty, TextGarbage }
    \cup { TextOfDocument(d) : d \in AppDocuments \cup OtherJson }

\* the messages of the errors that the request itself may throw
ServiceErrors == { "fetch failed", "" }

\* how a call of analyzePRD ends
Thrown(message) == [ok |-> FALSE, message |-> message, value |-> NoJson]
Returned(value) == [ok |-> TRUE, message |-> "", value |-> value]

\* return { ...data, requesterName: metadata.requesterName,
\*          requestDate: metadata.date }
WithMetadata(d, metadata) ==
  [f \in DOMAIN d \cup {"requesterName", "requestDate"} |->
     IF f = "requesterName" THEN metadata.requesterName
     ELSE IF f = "requestDate" THEN metadata.date
     ELSE d[f]]

\* the fields of data that a render of ResultsDashboard dereferences:
\* data.phases.map, data.roadmap.length, data.totalEstimatedDurationWeeks.max
RenderedFields == { "phases", "roadmap", "totalEstimatedDurationWeeks" }

\* the first render of ResultsDashboard throws a TypeError when one of them
\* is undefined
RenderThrows(d) == ~(RenderedFields \subseteq DOMAIN d)

\* analyzePRD up to the request: if (!apiKey) throw ...; the call is then
\* rejected without a request, else the request is sent and awaited
StartedCall(key, metadata) ==
  [metadata |-> metadata, sent |-> ~FalsyString(key),
   failure |-> IF FalsyString(key) THEN Some(MsgNoApiKey) ELSE Null]

\* faulty variant of AfterResponse: a text that is no JSON is passed on as
\* an empty document
AfterResponseLenient(response, metadata) ==
  IF FalsyString(response.text) THEN Thrown(MsgNoText)
  ELSE IF response.json = Null THEN Returned(WithMetadata(NoJson, metadata))
  ELSE Returned(WithMetadata(response.json[1], metadata))

\* analyzePRD after the response: if (!response.text) throw ...;
\* try { JSON.parse } catch { throw ... }
AfterResponse(response, metadata) ==
  IF FalsyString(response.text) THEN Thrown(MsgNoText)
  ELSE IF response.json = Null THEN Thrown(MsgNotJson)
  ELSE Returned(WithMetadata(response.json[1], metadata))

\* faulty variant of ErrorShown: one message for every failure
ErrorShownGeneric(message) == MsgUnexpected

\* err.message || "Ocurrió un error inesperado al analizar el PRD."
ErrorShown(message) == IF message = "" THEN MsgUnexpected ELSE message

(***************************************************************************)
(* The form (InputSection).  The description is kept as its length, the    *)
(* two names as strings, the five rates as numbers.                        *)
(***************************************************************************)
\* parseFloat(s): leading white space is skipped, then the longest prefix
\* that is a decimal literal with optional sign is read, whatever follows
\* it; NaN if there is no such prefix (exponents and Infinity are not
\* modelled).  The literal: sign, integer part i0..i1, point, fraction
\* i2..i3.
FloatFromFraction(t, i0, i1, i2, i3) ==
  IF i1 = i0 /\ i3 = i2 THEN NaN
  ELSE Signed(t, DigitsValue(t, i0, i1) * Unit + FractionValue(t, i2, i3, 1))

FloatFromPoint(t, i0, i1, i2) ==
  FloatFromFraction(t, i0, i1, i2, IF i2 > i1 THEN SkipDigits(t, i2) ELSE i2)

FloatFromInteger(t, i0, i1) == FloatFromPoint(t, i0, i1, SkipDot(t, i1))

FloatFromSign(t, i0) == FloatFromInteger(t, i0, SkipDigits(t, i0))

FloatOfTrimmed(t) ==
  IF t = Str0 THEN NaN
  ELSE FloatFromSign(t, IF t[1] \in {"-", "+"} THEN 2 ELSE 1)

parseFloat(s) == FloatOfTrimmed(TrimStart(s))

\* the roles of the rate fields
FixedRoles == { FIXED_ROLES[i] : i \in 1..Len(FIXED_ROLES) }

\* useState({ 'Product Owner': 60, 'Back-end Developer': 55,
\*            'Front-end Developer': 50, 'UI/UX Designer': 45,
\*            'QA Engineer': 40 })
InitialFieldRates ==
  (FIXED_ROLES[1] :> Whole(60)) @@ (FIXED_ROLES[2] :> Whole(55))
    @@ (FIXED_ROLES[3] :> Whole(50)) @@ (FIXED_ROLES[4] :> Whole(40))
    @@ (FIXED_ROLES[5] :> Whole(45))

\* new Date().toISOString().split('T')[0] on the day the form is opened
FormDate == "2025-02-10"

\* the state of an InputSection that has just mounted
FreshForm ==
  [text |-> 0, error |-> "", projectName |-> Str0, requesterName |-> Str0,
   date |-> FormDate, rates |-> InitialFieldRates]

ErrTooShort == "Por favor, ingresa más detalles sobre tu proyecto (mínimo 50 caracteres) para obtener una estimación precisa."
ErrNames == "Por favor completa el nombre del proyecto y del solicitante."
ErrRates == "Por favor define un valor hora mayor a 0 para todos los roles."

MinTextLength == 50

\* the example that handleExample loads
ExampleLength == 785
ExampleProjectName == <<"D","o","g","W","a","l","k"," ","A","p","p">>
ExampleRequesterName == <<"J","u","a","n"," ","P","é","r","e","z">>

\* faulty variant of StoredRate: the parsed number is stored as it is
StoredRateUnchecked(numValue) == numValue

\* isNaN(numValue) ? 0 : numValue
StoredRate(numValue) == IF numValue.nan THEN Zero ELSE numValue

\* the updater of setRates: { ...prev, [role]: isNaN(numValue) ? 0 : numValue }
FieldRatesAfterChange(prev, role, value) ==
  [prev EXCEPT ![role] = StoredRate(parseFloat(value))]

\* !s.trim()
Blank(s) == TrimEnd(TrimStart(s)) = Str0

\* Object.values(rates).some(r => r <= 0); NaN <= 0 is false
HasInvalidRate(rates) ==
  \E role \in DOMAIN rates : ~rates[role].nan /\ rates[role].v <= 0

\* the message that handleSubmit sets, '' when it goes on to onAnalyze
SubmitError(f) ==
  IF f.text < MinTextLength THEN ErrTooShort
  ELSE IF Blank(f.projectName) \/ Blank(f.requesterName) THEN ErrNames
  ELSE IF HasInvalidRate(f.rates) THEN ErrRates
  ELSE ""

\* { projectName, requesterName, date, userRates: rates }
MetadataOf(f) ==
  [projectName |-> f.projectName, requesterName |-> f.requesterName,
   date |-> f.date, userRates |-> f.rates]

\* what the user types: lengths of the description, names, and the values a
\* field of type number hands to its onChange ('' for an entry that is no
\* number, else a decimal literal)
TextLengths == { 49, 50 }
ProjectNames == { <<" ">>, <<"A", "p", "p">> }
RequesterNames == { <<"A", "n", "a">> }
RateFieldInputs == { Str0, <<"-", "5">>, <<"0", ".", "5">> }
\* the rate fields that are edited
EditedFields == { FIXED_ROLES[1], FIXED_ROLES[4] }

(***************************************************************************)
(* The dashboard as a state machine.                                       *)
(***************************************************************************)
VARIABLES
  data,        \* the data prop: the estimate document
  roleRates,   \* the Rate Store
  pc,          \* "mounted": first render done, mount effect pending; "ready"
  view,        \* what the latest render computed
  projectStartDate,  \* the anchor date, computed once at mount
  timelineGroups,    \* the month groups of the grid of the latest render
  appState,    \* App: 'input', 'analyzing', 'result' or 'error'
  result,      \* App: null or the document of the last analysis
  errorMsg,    \* App: null or the message shown in the 'error' state
  call,        \* null or the call of analyzePRD that handleAnalyze awaits
  apiKey,      \* process.env.API_KEY
  lastStore,   \* history: the Rate Store of the dashboard last unmounted
  form         \* the state of the InputSection on the screen, if any

dashboardVars ==
  <<data, roleRates, pc, view, projectStartDate, timelineGroups>>
appVars == <<appState, result, errorMsg, call, apiKey, lastStore, form>>
vars == <<data, roleRates, pc, view, projectStartDate, timelineGroups,
          appState, result, errorMsg, call, apiKey, lastStore, form>>

\* the dates on which the dashboard is opened
Today == Date(2025, 2, 10)
RoadmapTodays ==
  { Today, Date(2025, 1, 15), Date(2024, 1, 31), Date(2025, 11, 30),
    Date(2025, 12, 31) }

\* the strings typed into a rate field
RateInputs ==
  { Str0, <<"5", "5">>, <<"7", "0">>, <<".">>, <<".", "5">>,
    <<"-", "5">>, <<"1", "e", "3">>, <<"a">>, <<"5", ",", "5">>, <<" ", "5">> }

\* the rows of the rate table: one input per entry of calculatedBreakdown
EditableRoles ==
  { view.core.calculatedBreakdown[j].role :
      j \in 1..Len(view.core.calculatedBreakdown) }

\* the deps of the timelineGroups useMemo: [maxDuration, projectStartDate]
MemoTimeline(prevGroups, prevDuration, prevStart, maxDuration, start) ==
  IF <<prevDuration, prevStart>> = <<maxDuration, start>> THEN prevGroups
  ELSE TimelineGroups(maxDuration, start)

\* the calendar part of a render that follows a change of state
TimelineRendered ==
  /\ projectStartDate' = projectStartDate
  /\ timelineGroups' = MemoTimeline(timelineGroups, view.maxDuration,
                                    projectStartDate, view'.maxDuration,
                                    projectStartDate')

\* mount with document d on the date now: useState({}) and the first render
Mounted(d, now) ==
  /\ roleRates = EmptyStore
  /\ pc = "mounted"
  /\ view = Render(CoreCalculation(d, EmptyStore), d)
  /\ data = DocumentAfterRender(d, view.core)
  /\ projectStartDate = ProjectStartDate(now)
  /\ timelineGroups = TimelineGroups(view.maxDuration, projectStartDate)

\* faulty variant of UseStateStore: the state of the dashboard unmounted
\* before is kept
UseStateStoreKept(previous) == previous

\* useState({}) of a dashboard that mounts: the store starts empty whatever
\* the store of the dashboard before it held
UseStateStore(previous) == EmptyStore

\* the same mount as a step of the application
MountDashboard(d, now) ==
  /\ roleRates' = UseStateStore(lastStore)
  /\ pc' = "mounted"
  /\ view' = Render(CoreCalculation(d, EmptyStore), d)
  /\ data' = DocumentAfterRender(d, view'.core)
  /\ projectStartDate' = ProjectStartDate(now)
  /\ timelineGroups' = TimelineGroups(view'.maxDuration, projectStartDate')

\* no dashboard is mounted: its variables hold blanks
NoView == Render(CoreCalculation(NoJson, EmptyStore), NoJson)
NoDate == Date(0, 0, 0)
Unmounted ==
  /\ data = NoJson
  /\ roleRates = EmptyStore
  /\ pc = "unmounted"
  /\ view = NoView
  /\ projectStartDate = NoDate
  /\ timelineGroups = <<>>

\* faulty variant of UnmountDashboard: the store outlives the dashboard
UnmountDashboardKeepingStore ==
  /\ data' = NoJson
  /\ roleRates' = roleRates
  /\ pc' = "unmounted"
  /\ view' = NoView
  /\ projectStartDate' = NoDate
  /\ timelineGroups' = <<>>

UnmountDashboard ==
  /\ data' = NoJson
  /\ roleRates' = EmptyStore
  /\ pc' = "unmounted"
  /\ view' = NoView
  /\ projectStartDate' = NoDate
  /\ timelineGroups' = <<>>

\* the render of the dashboard throws and no error boundary catches it:
\* React unmounts the whole tree, nothing is on the screen any more
DashboardCrashes ==
  /\ data' = NoJson
  /\ roleRates' = EmptyStore
  /\ pc' = "crashed"
  /\ view' = NoView
  /\ projectStartDate' = NoDate
  /\ timelineGroups' = <<>>

\* App shows the dashboard for document d
Showing(d) ==
  /\ appState = "result"
  /\ result = Some(d)
  /\ errorMsg = Null
  /\ call = Null
  /\ apiKey = Some("key")
  /\ lastStore = EmptyStore
  /\ form = FreshForm

Init == \E d \in RateDocuments : Mounted(d, Today) /\ Showing(d)

\* the mount effect: setRoleRates(initialRates), then the render it causes
InitRatesEffect ==
  /\ pc = "mounted"
  /\ roleRates' = InitialRates(data)
  /\ pc' = "ready"
  /\ view' = Render(MemoCore(view.core, data, roleRates, data, roleRates'), data)
  /\ data' = DocumentAfterRender(data, view'.core)
  /\ TimelineRendered
  /\ UNCHANGED appVars

\* faulty variant of RatesAfterChange: prev is not spread
RatesAfterChangeAlone(prev, role, newRate) ==
  sanitizeRole(role) :> StrEntry(newRate)

\* the updater of setRoleRates: { ...prev, [sanitizeRole(role)]: newRate }
RatesAfterChange(prev, role, newRate) ==
  Put(prev, sanitizeRole(role), StrEntry(newRate))

\* newRate === '' || /^\d*\.?\d*$/.test(newRate)
AcceptsRate(newRate) == newRate = Str0 \/ MatchesRatePattern(newRate)

\* handleRateChange(role, newRate) of ResultsDashboard, then the render an
\* accepted change causes
handleRateChange(role, newRate) ==
  /\ pc = "ready"
  /\ IF AcceptsRate(newRate)
     THEN /\ roleRates' = RatesAfterChange(roleRates, role, newRate)
          /\ view' = Render(MemoCore(view.core, data, roleRates, data, roleRates'),
                            data)
          /\ data' = DocumentAfterRender(data, view'.core)
          /\ TimelineRendered
     ELSE UNCHANGED <<data, roleRates, view, projectStartDate, timelineGroups>>
  /\ UNCHANGED pc
  /\ UNCHANGED appVars

RateChange == \E role \in EditableRoles, newRate \in RateInputs :
                handleRateChange(role, newRate)

Next == InitRatesEffect \/ RateChange

Spec == Init /\ [][Next]_vars

(***************************************************************************)
(* The application as a state machine: App with the dashboard inside.      *)
(***************************************************************************)
InitApp ==
  /\ appState = "input"
  /\ result = Null
  /\ errorMsg = Null
  /\ call = Null
  /\ apiKey \in ApiKeys
  /\ lastStore = EmptyStore
  /\ form = FreshForm
  /\ Unmounted

\* faulty variant of SubmitReachesApp: the form of every state submits to
\* handleAnalyze
SubmitReachesAppAlways(state) == TRUE

\* a click on the submit button reaches handleAnalyze in the 'input' state
\* only: the InputSection of 'analyzing' has its button disabled and
\* () => {} as onAnalyze, the other states render no InputSection
SubmitReachesApp(state) == state = "input"

\* handleAnalyze up to its await.  The InputSection of the 'analyzing' state
\* is another child of <main>: it mounts with a fresh state.
handleAnalyze(metadata) ==
  /\ SubmitReachesApp(appState)
  /\ appState' = "analyzing"
  /\ errorMsg' = Null
  /\ call' = Some(StartedCall(apiKey, metadata))
  /\ form' = FreshForm
  /\ UNCHANGED <<result, apiKey, lastStore>>
  /\ UNCHANGED dashboardVars

\* faulty variant of Caught: the message is not set
CaughtWithoutMessage(message) ==
  /\ appState' = "error"
  /\ call' = Null
  /\ form' = FreshForm
  /\ UNCHANGED <<errorMsg, result, apiKey, lastStore>>
  /\ UNCHANGED dashboardVars

\* the catch of handleAnalyze
Caught(message) ==
  /\ appState' = "error"
  /\ errorMsg' = Some(ErrorShown(message))
  /\ call' = Null
  /\ form' = FreshForm
  /\ UNCHANGED <<result, apiKey, lastStore>>
  /\ UNCHANGED dashboardVars

\* setResult(data); setAppState('result'), and the dashboard that App then
\* renders
Analyzed(d) ==
  /\ result' = Some(d)
  /\ appState' = "result"
  /\ call' = Null
  /\ form' = FreshForm
  /\ UNCHANGED <<errorMsg, apiKey, lastStore>>
  /\ IF RenderThrows(d) THEN DashboardCrashes ELSE MountDashboard(d, Today)

\* the call that was rejected for want of an API key reaches the catch
KeyMissing ==
  /\ call # Null
  /\ call[1].failure # Null
  /\ Caught(call[1].failure[1])

\* the request throws
ServiceError(message) ==
  /\ call # Null
  /\ call[1].sent
  /\ Caught(message)

Settled(outcome) ==
  IF outcome.ok THEN Analyzed(outcome.value) ELSE Caught(outcome.message)

\* the service answers
ServiceResponse(response) ==
  /\ call # Null
  /\ call[1].sent
  /\ Settled(AfterResponse(response, call[1].metadata))

\* faulty variant of ResetReachable: a control that calls handleReset is on
\* every page
ResetReachableAlways(state) == TRUE

\* the controls that call handleReset: onReset of the dashboard ('result')
\* and "Intentar de nuevo" of the error page ('error'); the pages of 'input'
\* and 'analyzing' have none
ResetReachable(state) == state \in {"result", "error"}

\* handleReset; it leaves a pending call of analyzePRD alone
handleReset ==
  /\ ResetReachable(appState)
  /\ pc # "crashed"
  /\ appState' = "input"
  /\ result' = Null
  /\ errorMsg' = Null
  /\ lastStore' = roleRates
  /\ form' = FreshForm
  /\ UNCHANGED <<call, apiKey>>
  /\ UnmountDashboard

Analyze == \E metadata \in Metadatas : handleAnalyze(metadata)
RequestFails == \E message \in ServiceErrors : ServiceError(message)
Responds == \E response \in ResponseTexts : ServiceResponse(response)

NextApp ==
  \/ Analyze
  \/ KeyMissing
  \/ RequestFails
  \/ Responds
  \/ handleReset
  \/ InitRatesEffect
  \/ RateChange

SpecApp == InitApp /\ [][NextApp]_vars

(***************************************************************************)
(* The application with its form: what the user can do on the input page.  *)
(***************************************************************************)
\* a field is edited; every field is disabled while isAnalyzing
FormEdited(f) ==
  /\ appState = "input"
  /\ form' = f
  /\ UNCHANGED <<appState, result, errorMsg, call, apiKey, lastStore>>
  /\ UNCHANGED dashboardVars

setText(length) == FormEdited([form EXCEPT !.text = length])
setProjectName(name) == FormEdited([form EXCEPT !.projectName = name])
setRequesterName(name) == FormEdited([form EXCEPT !.requesterName = name])

\* handleRateChange(role, value) of InputSection
InputSection_handleRateChange(role, value) ==
  FormEdited([form EXCEPT
                !.rates = FieldRatesAfterChange(form.rates, role, value)])

\* handleExample; its button is not disabled while isAnalyzing
handleExample ==
  /\ appState \in {"input", "analyzing"}
  /\ form' = [form EXCEPT !.projectName = ExampleProjectName,
                          !.requesterName = ExampleRequesterName,
                          !.text = ExampleLength, !.error = ""]
  /\ UNCHANGED <<appState, result, errorMsg, call, apiKey, lastStore>>
  /\ UNCHANGED dashboardVars

\* handleSubmit; its button is disabled while isAnalyzing, and the onAnalyze
\* of that InputSection is () => {}
handleSubmit ==
  /\ SubmitReachesApp(appState)
  /\ IF SubmitError(form) = ""
     THEN handleAnalyze(MetadataOf(form))
     ELSE /\ form' = [form EXCEPT !.error = SubmitError(form)]
          /\ UNCHANGED <<appState, result, errorMsg, call, apiKey, lastStore>>
          /\ UNCHANGED dashboardVars

TextTyped == \E length \in TextLengths : setText(length)
ProjectNameTyped == \E name \in ProjectNames : setProjectName(name)
RequesterNameTyped == \E name \in RequesterNames : setRequesterName(name)
FieldRateTyped ==
  \E role \in EditedFields, value \in RateFieldInputs :
    InputSection_handleRateChange(role, value)

NextForm ==
  \/ TextTyped
  \/ ProjectNameTyped
  \/ RequesterNameTyped
  \/ FieldRateTyped
  \/ handleExample
  \/ handleSubmit
  \/ KeyMissing
  \/ RequestFails
  \/ Responds
  \/ handleReset
  \/ InitRatesEffect

SpecForm == InitApp /\ [][NextForm]_vars

\* the dashboard rendered for the documents that vary the roadmap
InitRoadmap ==
  \E d \in RoadmapDocuments, now \in RoadmapTodays :
    Mounted(d, now) /\ Showing(d)
NextRoadmap == InitRatesEffect
SpecRoadmap == InitRoadmap /\ [][NextRoadmap]_vars

(***************************************************************************)
(* What the properties below speak of, computed from the document and the  *)
(* Rate Store alone.                                                       *)
(***************************************************************************)
RECURSIVE SumOver(_, _)
\* the sum of a sequence of numbers
SumOver(nums, i) ==
  IF i > Len(nums) THEN Zero ELSE Add(nums[i], SumOver(nums, i + 1))

\* the places <<i, j>> of the tasks of the document: task j of phase i
TaskPlaces ==
  UNION { { <<i, j>> : j \in 1..Len(data.phases[i].tasks) } :
            i \in 1..Len(data.phases) }

TaskAt(p) == data.phases[p[1]].tasks[p[2]]
KeyAt(p) == sanitizeRole(TaskAt(p).assignedRole)
\* the rate and the cost the latest calculation gave the task at p
RowAt(p) == view.core.taskRows[p[1]][p[2]]

TaskCostsOfPhase(i) ==
  [j \in 1..Len(view.core.taskRows[i]) |-> view.core.taskRows[i][j].cost]
PhaseCosts ==
  [i \in 1..Len(view.core.phasesWithDynamicCost) |->
     view.core.phasesWithDynamicCost[i].estimatedCost]
RoleSubtotals ==
  [j \in 1..Len(view.core.calculatedBreakdown) |->
     view.core.calculatedBreakdown[j].subtotalCost]

\* equality of two numbers as JavaScript compares them: NaN equals nothing,
\* itself included
StrictEq(a, b) == ~a.nan /\ ~b.nan /\ a.v = b.v

\* a number that is not NaN and not negative
NonNegative(n) == ~n.nan /\ n.v >= 0

\* a non-negative decimal numeral: digits with at most one point among them
\* and at least one digit
DecimalNumeral(s) ==
  /\ \A i \in 1..Len(s) : s[i] \in Digits \cup {"."}
  /\ Cardinality({ i \in 1..Len(s) : s[i] = "." }) <= 1
  /\ \E i \in 1..Len(s) : s[i] \in Digits

(***************************************************************************)
(* C1. Sum consistency: in every reachable state the costs of the tasks of *)
(* a phase add up to the recomputed cost of the phase, the recomputed      *)
(* phase costs add up to the grand total cost, and the subtotals of the    *)
(* role breakdown add up to the grand total cost (equality of numbers as   *)
(* the program compares them).                                             *)
(***************************************************************************)
C1_SumConsistency ==
  /\ \A i \in 1..Len(view.core.phasesWithDynamicCost) :
       StrictEq(SumOver(TaskCostsOfPhase(i), 1),
                view.core.phasesWithDynamicCost[i].estimatedCost)
  /\ StrictEq(SumOver(PhaseCosts, 1), view.core.totalCalculatedCost)
  /\ StrictEq(SumOver(RoleSubtotals, 1), view.core.totalCalculatedCost)

\* the three sums agree in every state whose grand total is a number
C1_SumsAgreeWhenDefined ==
  view.core.totalCalculatedCost.nan \/ C1_SumConsistency

(***************************************************************************)
(* C2. Clearing a role's rate: after handleRateChange(role, "") every task *)
(* whose key is sanitizeRole(role) has rate 0 and cost 0, whatever its     *)
(* AI-supplied rate, and the store holds the empty string under the key,   *)
(* which is neither an absent entry nor a number.                          *)
(***************************************************************************)
ClearedAfter(role) ==
  /\ Has(roleRates', sanitizeRole(role))
  /\ roleRates'[sanitizeRole(role)] = StrEntry(Str0)
  /\ \A p \in TaskPlaces :
       KeyAt(p) = sanitizeRole(role) =>
         /\ StrictEq(view'.core.taskRows[p[1]][p[2]].rate, Zero)
         /\ StrictEq(view'.core.taskRows[p[1]][p[2]].cost, Zero)

C2_ClearingGivesZero ==
  [][\A role \in EditableRoles :
       handleRateChange(role, Str0) => ClearedAfter(role)]_vars

\* a cleared role with a task of non-zero hours and non-zero AI rate
C2_Witness ==
  \E p \in TaskPlaces :
    /\ Has(roleRates, KeyAt(p))
    /\ roleRates[KeyAt(p)] = StrEntry(Str0)
    /\ TaskAt(p).hours # Zero /\ TaskAt(p).hourlyRate # Zero
    /\ RowAt(p).cost = Zero

(***************************************************************************)
(* C3. A numeric rate edit: after handleRateChange(role, s) with s a       *)
(* non-negative decimal numeral every task whose key is sanitizeRole(role) *)
(* has rate Number(s) and cost hours * Number(s); so a 10 hour task costs  *)
(* 550 after "55" and 700 after a following "70": the last edit decides.   *)
(***************************************************************************)
EditedAfter(role, s) ==
  \A p \in TaskPlaces :
    KeyAt(p) = sanitizeRole(role) =>
      /\ StrictEq(view'.core.taskRows[p[1]][p[2]].rate, StringToNumber(s))
      /\ StrictEq(view'.core.taskRows[p[1]][p[2]].cost,
                  Mul(TaskAt(p).hours, StringToNumber(s)))
      /\ (s = <<"5", "5">> /\ TaskAt(p).hours = Whole(10)) =>
            view'.core.taskRows[p[1]][p[2]].cost = Whole(550)
      /\ (s = <<"7", "0">> /\ TaskAt(p).hours = Whole(10)) =>
            view'.core.taskRows[p[1]][p[2]].cost = Whole(700)

C3_NumericEditSetsCost ==
  [][\A role \in EditableRoles, s \in RateInputs :
       (DecimalNumeral(s) /\ handleRateChange(role, s)) =>
         EditedAfter(role, s)]_vars

\* a 10 hour task of AI rate 55 costing 700 under the stored string "70"
C3_Witness ==
  \E p \in TaskPlaces :
    /\ Has(roleRates, KeyAt(p))
    /\ roleRates[KeyAt(p)] = StrEntry(<<"7", "0">>)
    /\ TaskAt(p).hours = Whole(10) /\ TaskAt(p).hourlyRate = Whole(55)
    /\ RowAt(p).cost = Whole(700)

(***************************************************************************)
(* C4. Rate fallback: a task whose key has no entry in the Rate Store is   *)
(* calculated at its own AI-supplied hourlyRate, its cost being            *)
(* hours * hourlyRate.                                                     *)
(***************************************************************************)
C4_AbsentKeyFallsBack ==
  \A p \in TaskPlaces :
    ~Has(roleRates, KeyAt(p)) =>
      /\ StrictEq(RowAt(p).rate, TaskAt(p).hourlyRate)
      /\ StrictEq(RowAt(p).cost, Mul(TaskAt(p).hours, TaskAt(p).hourlyRate))

\* a task without a store entry whose cost is not zero
C4_Witness ==
  \E p \in TaskPlaces :
    /\ ~Has(roleRates, KeyAt(p))
    /\ TaskAt(p).hours # Zero
    /\ RowAt(p).cost = Mul(TaskAt(p).hours, TaskAt(p).hourlyRate)
    /\ RowAt(p).cost # Zero

(***************************************************************************)
(* C5. Rejected input: handleRateChange(role, input) with an input that is *)
(* neither the empty string nor a non-negative decimal numeral leaves the  *)
(* Rate Store as it was.                                                   *)
(***************************************************************************)
C5_RejectedInputIsNoOp ==
  [][\A role \in EditableRoles, s \in RateInputs :
       (s # Str0 /\ ~DecimalNumeral(s) /\ handleRateChange(role, s)) =>
         roleRates' = roleRates]_vars

\* the inputs that the pattern of handleRateChange refuses leave the store
C5_RefusedInputIsNoOp ==
  [][\A role \in EditableRoles, s \in RateInputs :
       (~AcceptsRate(s) /\ handleRateChange(role, s)) =>
         roleRates' = roleRates]_vars

(***************************************************************************)
(* C6. Store well-formedness: every entry of the Rate Store is the cleared *)
(* sentinel or denotes a non-negative number, and therefore every rate,    *)
(* cost, subtotal and total the calculation gives is a non-negative        *)
(* number.                                                                 *)
(***************************************************************************)
EntryWellFormed(entry) ==
  \/ entry.isStr /\ entry.str = Str0
  \/ NonNegative(EntryToNumber(entry))

AggregatesNonNegative ==
  /\ \A p \in TaskPlaces : NonNegative(RowAt(p).rate) /\ NonNegative(RowAt(p).cost)
  /\ \A i \in 1..Len(PhaseCosts) : NonNegative(PhaseCosts[i])
  /\ \A j \in 1..Len(RoleSubtotals) : NonNegative(RoleSubtotals[j])
  /\ NonNegative(view.core.totalCalculatedCost)
  /\ NonNegative(view.core.totalCalculatedHours)

C6_StoreWellFormed ==
  /\ \A key \in DOMAIN roleRates : EntryWellFormed(roleRates[key])
  /\ AggregatesNonNegative

(***************************************************************************)
(* C8. Week floor: calculatedWeeks is the greatest endWeek of the roadmap  *)
(* when the roadmap has an interval (parallel intervals do not add up: the *)
(* roadmap [1,2], [3,6], [3,6], [7,8] gives 8) and the least whole number  *)
(* of 24 hour weeks that holds totalCalculatedHours when it has none.      *)
(***************************************************************************)
RoadmapEnds == { data.roadmap[j].endWeek : j \in 1..Len(data.roadmap) }

\* n = ceil(hours / 24)
IsCeilingOfWeeks(n, hours) ==
  /\ n * HoursPerWeek * Unit >= hours.v
  /\ (n - 1) * HoursPerWeek * Unit < hours.v

C8_CalculatedWeeks ==
  /\ Len(data.roadmap) > 0 =>
       /\ view.calculatedWeeks \in RoadmapEnds
       /\ \A e \in RoadmapEnds : e <= view.calculatedWeeks
  /\ Len(data.roadmap) = 0 =>
       IsCeilingOfWeeks(view.calculatedWeeks, view.core.totalCalculatedHours)
  /\ data.roadmap = ParallelRoadmap => view.calculatedWeeks = 8

\* the roadmap with two parallel intervals, resolved to 8 weeks
C8_Witness == data.roadmap = ParallelRoadmap /\ view.calculatedWeeks = 8

(***************************************************************************)
(* C9. Grid duration: maxDuration is the greatest of the advisory maximum  *)
(* duration of the document, calculatedWeeks, the endWeeks of the roadmap  *)
(* and 0, so it is at least each of them.                                  *)
(***************************************************************************)
C9_MaxDuration ==
  /\ view.maxDuration >= 0
  /\ view.maxDuration >= data.totalEstimatedDurationWeeks.max
  /\ view.maxDuration >= view.calculatedWeeks
  /\ \A e \in RoadmapEnds : view.maxDuration >= e
  /\ view.maxDuration \in
       {0, data.totalEstimatedDurationWeeks.max, view.calculatedWeeks}
         \cup RoadmapEnds

\* a roadmap that ends before the advisory maximum, which then sets the grid
C9_Witness ==
  /\ Len(data.roadmap) > 0
  /\ data.totalEstimatedDurationWeeks.max > view.calculatedWeeks
  /\ view.maxDuration = data.totalEstimatedDurationWeeks.max

(***************************************************************************)
(* C10. Clamp: every bar is placed at safeStart = max(1, startWeek) and    *)
(* safeEnd = max(safeStart, endWeek), so safeStart >= 1, safeEnd >=        *)
(* safeStart and the bar covers safeEnd - safeStart + 1 >= 1 weeks; a      *)
(* startWeek of 0 counts as 1, and startWeek 5 with endWeek 2 counts as    *)
(* endWeek 5.                                                              *)
(***************************************************************************)
BarClamped(item, bar) ==
  /\ bar.safeStart = (IF item.startWeek < 1 THEN 1 ELSE item.startWeek)
  /\ bar.safeEnd = (IF item.endWeek < bar.safeStart THEN bar.safeStart
                    ELSE item.endWeek)
  /\ bar.safeStart >= 1
  /\ bar.safeEnd >= bar.safeStart
  /\ bar.widthWeeks = bar.safeEnd - bar.safeStart + 1
  /\ bar.widthWeeks >= 1
  /\ item.startWeek = 0 => bar.safeStart = 1
  /\ (item.startWeek = 5 /\ item.endWeek = 2) => bar.safeEnd = 5

C10_BarsAreClamped ==
  /\ Len(view.bars) = Len(data.roadmap)
  /\ \A j \in 1..Len(data.roadmap) : BarClamped(data.roadmap[j], view.bars[j])

\* the interval from week 5 to week 2, drawn as the single week 5
C10_Witness ==
  /\ data.roadmap = InvertedRoadmap
  /\ view.bars[1].safeStart = 5 /\ view.bars[1].safeEnd = 5
  /\ view.bars[1].widthWeeks = 1

(***************************************************************************)
(* C13. The role breakdown follows the tasks: calculatedBreakdown holds    *)
(* exactly one entry for every key that some task of the document has, so  *)
(* none for a role that only the Rate Store knows, and the totalHours of   *)
(* an entry is the sum of the hours of the tasks of its key over all       *)
(* phases.                                                                 *)
(***************************************************************************)
TaskKeys == { KeyAt(p) : p \in TaskPlaces }

BreakdownKeyAt(j) == sanitizeRole(view.core.calculatedBreakdown[j].role)

RECURSIVE HoursOfKeyInTasks(_, _, _)
HoursOfKeyInTasks(tasks, i, key) ==
  IF i > Len(tasks) THEN Zero
  ELSE Add(IF sanitizeRole(tasks[i].assignedRole) = key THEN tasks[i].hours
           ELSE Zero,
           HoursOfKeyInTasks(tasks, i + 1, key))

RECURSIVE HoursOfKey(_, _)
\* the hours of the tasks of the key in the phases from i on
HoursOfKey(i, key) ==
  IF i > Len(data.phases) THEN Zero
  ELSE Add(HoursOfKeyInTasks(data.phases[i].tasks, 1, key),
           HoursOfKey(i + 1, key))

C13_BreakdownFollowsTasks ==
  /\ { BreakdownKeyAt(j) : j \in 1..Len(view.core.calculatedBreakdown) }
       = TaskKeys
  /\ Len(view.core.calculatedBreakdown) = Cardinality(TaskKeys)
  /\ \A j \in 1..Len(view.core.calculatedBreakdown) :
       StrictEq(view.core.calculatedBreakdown[j].totalHours,
                HoursOfKey(1, BreakdownKeyAt(j)))

\* the store knows a role that no task has, and two tasks of different
\* phases and different labels share a key
C13_Witness ==
  /\ \E key \in DOMAIN roleRates : key \notin TaskKeys
  /\ \E p \in TaskPlaces, q \in TaskPlaces :
       /\ p[1] # q[1]
       /\ TaskAt(p).assignedRole # TaskAt(q).assignedRole
       /\ KeyAt(p) = KeyAt(q)
  /\ Len(view.core.calculatedBreakdown) < Cardinality(DOMAIN roleRates)

(***************************************************************************)
(* Two labels are the same role written differently when they are equal    *)
(* once letter case is ignored, white space at either end is dropped and   *)
(* every run of white space between words counts as one blank.             *)
(***************************************************************************)
RECURSIVE CollapseBlanks(_, _)
CollapseBlanks(s, i) ==
  IF i > Len(s) THEN <<>>
  ELSE IF s[i] \in WhiteSpace
       THEN IF i > 1 /\ s[i - 1] \in WhiteSpace THEN CollapseBlanks(s, i + 1)
            ELSE <<" ">> \o CollapseBlanks(s, i + 1)
       ELSE <<s[i]>> \o CollapseBlanks(s, i + 1)

CanonicalLabel(label) ==
  CollapseBlanks(TrimEnd(TrimStart(ToLowerCase(label))), 1)

SameRoleWrittenDifferently(a, b) == CanonicalLabel(a) = CanonicalLabel(b)

(***************************************************************************)
(* C14. sanitizeRole is collision-free: two tasks whose labels are not the *)
(* same role written differently never share a store key.                  *)
(***************************************************************************)
C14_DistinctRolesDistinctKeys ==
  \A p \in TaskPlaces, q \in TaskPlaces :
    KeyAt(p) = KeyAt(q) =>
      SameRoleWrittenDifferently(TaskAt(p).assignedRole, TaskAt(q).assignedRole)

\* the five FIXED_ROLES have five keys
C14_FixedRolesHaveDistinctKeys ==
  Cardinality({ sanitizeRole(FIXED_ROLES[i]) : i \in 1..Len(FIXED_ROLES) }) = 5

(***************************************************************************)
(* C15. Two tasks whose labels are the same role written differently (in   *)
(* letter case, in the white space between words, or in white space at     *)
(* either end) have the same store key.                                    *)
(***************************************************************************)
C15_SameRoleSameKey ==
  \A p \in TaskPlaces, q \in TaskPlaces :
    SameRoleWrittenDifferently(TaskAt(p).assignedRole, TaskAt(q).assignedRole)
      => KeyAt(p) = KeyAt(q)

\* labels that differ in letter case or in the white space between words
\* only have the same key
C15_CaseAndInnerSpaceSameKey ==
  \A p \in TaskPlaces, q \in TaskPlaces :
    /\ SameRoleWrittenDifferently(TaskAt(p).assignedRole, TaskAt(q).assignedRole)
    /\ TrimEnd(TrimStart(TaskAt(p).assignedRole)) = TaskAt(p).assignedRole
    /\ TrimEnd(TrimStart(TaskAt(q).assignedRole)) = TaskAt(q).assignedRole
    => KeyAt(p) = KeyAt(q)

(***************************************************************************)
(* C16. Initialization of the Rate Store: the mount effect gives the key   *)
(* of every role of costBreakdown the hourly rate of that list, a rate of  *)
(* 0 included; the scan of the tasks adds entries for other keys only and  *)
(* replaces none that the list supplied.                                   *)
(***************************************************************************)
\* the store holds, under the key of item j of costBreakdown, a rate that the
\* list gives for that key
ListRateKept(rr, j) ==
  /\ Has(rr, sanitizeRole(data.costBreakdown[j].role))
  /\ \E k \in 1..Len(data.costBreakdown) :
       /\ sanitizeRole(data.costBreakdown[k].role)
            = sanitizeRole(data.costBreakdown[j].role)
       /\ rr[sanitizeRole(data.costBreakdown[j].role)]
            = NumEntry(data.costBreakdown[k].hourlyRate)

C16_ListRatesKept ==
  [][InitRatesEffect =>
       \A j \in 1..Len(data.costBreakdown) : ListRateKept(roleRates', j)]_vars

\* the rates of the list that are not 0 are kept, and every task key that
\* the list does not name gets the rate of the first task that has it
C16_NonZeroListRatesKept ==
  [][InitRatesEffect =>
       /\ \A j \in 1..Len(data.costBreakdown) :
            Truthy(data.costBreakdown[j].hourlyRate)
              => ListRateKept(roleRates', j)
       /\ \A p \in TaskPlaces : Has(roleRates', KeyAt(p))]_vars

(***************************************************************************)
(* C11. Calendar grid coverage: the weeks lists of timelineGroups, one     *)
(* after the other in output order, are exactly 1, 2, ..., maxDuration; no *)
(* group is empty, and a grid of 0 weeks has no groups.                    *)
(***************************************************************************)
RECURSIVE WeeksOfGroups(_, _)
WeeksOfGroups(groups, j) ==
  IF j > Len(groups) THEN <<>>
  ELSE groups[j].weeks \o WeeksOfGroups(groups, j + 1)

C11_GroupsPartitionWeeks ==
  /\ Len(WeeksOfGroups(timelineGroups, 1)) = view.maxDuration
  /\ \A w \in 1..view.maxDuration : WeeksOfGroups(timelineGroups, 1)[w] = w
  /\ \A j \in 1..Len(timelineGroups) : Len(timelineGroups[j].weeks) >= 1
  /\ view.maxDuration = 0 => timelineGroups = <<>>

\* a grid of LongDuration weeks in three month groups
C11_Witness ==
  /\ view.maxDuration = LongDuration
  /\ Len(timelineGroups) = 3
  /\ Len(WeeksOfGroups(timelineGroups, 1)) = LongDuration

(***************************************************************************)
(* C12. Week w starts 7 * (w - 1) days after the anchor date and stands in *)
(* the group labelled with the month and year of that day; adjacent groups *)
(* have different labels.  With the anchor on March 1 five weeks make one  *)
(* March group; with an anchor on March 25 week 2 starts on April 1 and    *)
(* opens an April group.                                                   *)
(***************************************************************************)
\* the days of a common year before the first of each month
DaysBeforeMonth == <<0, 31, 59, 90, 120, 151, 181, 212, 243, 273, 304, 334>>

GregorianLeap(y) == y % 4 = 0 /\ (y % 100 # 0 \/ y % 400 = 0)

\* the number of the day in a count of days that starts in the year 2000
DayNumber(y, m, d) ==
  365 * (y - 2000) + Cardinality({ k \in 2000..(y - 1) : GregorianLeap(k) })
    + DaysBeforeMonth[m] + (IF m > 2 /\ GregorianLeap(y) THEN 1 ELSE 0) + d

FirstOfNextMonth(y, m) ==
  IF m = 12 THEN DayNumber(y + 1, 1, 1) ELSE DayNumber(y, m + 1, 1)

\* day number n lies in month m of year y
DayInMonth(n, y, m) == DayNumber(y, m, 1) <= n /\ n < FirstOfNextMonth(y, m)

MonthOfName(name) == CHOOSE m \in 1..12 : MonthNames[m] = name

\* week w starts in the month that the label names
WeekStartsUnderLabel(w, label) ==
  /\ Len(label) = 3
  /\ label[1] \in { MonthNames[m] : m \in 1..12 }
  /\ DayInMonth(DayNumber(projectStartDate.year, projectStartDate.month,
                          projectStartDate.day) + 7 * (w - 1),
                label[3], MonthOfName(label[1]))

MarchGroup(weeks) == [monthLabel |-> <<"marzo", "de", 2025>>, weeks |-> weeks]
AprilGroup(weeks) == [monthLabel |-> <<"abril", "de", 2025>>, weeks |-> weeks]

C12_WeeksUnderTheirMonth ==
  /\ \A j \in 1..Len(timelineGroups) :
       \A k \in 1..Len(timelineGroups[j].weeks) :
         WeekStartsUnderLabel(timelineGroups[j].weeks[k],
                              timelineGroups[j].monthLabel)
  /\ \A j \in 1..(Len(timelineGroups) - 1) :
       timelineGroups[j].monthLabel # timelineGroups[j + 1].monthLabel
  /\ (projectStartDate = Date(2025, 3, 1) /\ view.maxDuration = 5) =>
       timelineGroups = <<MarchGroup(<<1, 2, 3, 4, 5>>)>>
  /\ TimelineGroups(2, Date(2025, 3, 25)) = <<MarchGroup(<<1>>), AprilGroup(<<2>>)>>

\* the anchor on March 1 and a grid of five weeks, all of them in March
C12_Witness ==
  /\ projectStartDate = Date(2025, 3, 1)
  /\ view.maxDuration = 5
  /\ timelineGroups = <<MarchGroup(<<1, 2, 3, 4, 5>>)>>

(***************************************************************************)
(* C17: whenever a new estimate document replaces the current one, the     *)
(* Rate Store is reset to the initial rates derived from the new document  *)
(* only: the dashboard of the new document mounts with an empty store, its *)
(* mount effect leaves exactly the keys of the new document, each with a   *)
(* number that the new document gives for that key, so that no override or *)
(* cleared entry made against the previous document survives; and while a  *)
(* document is shown the store changes only through handleRateChange.      *)
(***************************************************************************)
\* the keys of the roles of document d, of its list and of its tasks
KeysOfDocument(d) ==
  { sanitizeRole(d.costBreakdown[j].role) : j \in 1..Len(d.costBreakdown) }
    \cup UNION { { sanitizeRole(d.phases[i].tasks[j].assignedRole) :
                     j \in 1..Len(d.phases[i].tasks) } :
                 i \in 1..Len(d.phases) }

\* the rates that document d gives for a key
RatesOfDocument(d, key) ==
  { d.costBreakdown[j].hourlyRate :
      j \in { k \in 1..Len(d.costBreakdown) :
                sanitizeRole(d.costBreakdown[k].role) = key } }
    \cup UNION { { d.phases[i].tasks[j].hourlyRate :
                     j \in { k \in 1..Len(d.phases[i].tasks) :
                       sanitizeRole(d.phases[i].tasks[k].assignedRole) = key } } :
                 i \in 1..Len(d.phases) }

FromDocumentOnly(rr, d) ==
  /\ DOMAIN rr = KeysOfDocument(d)
  /\ \A key \in DOMAIN rr :
       ~rr[key].isStr /\ rr[key].num \in RatesOfDocument(d, key)

C17_StoreResetPerDocument ==
  [][/\ (result' # result /\ result' # Null /\ ~RenderThrows(result'[1]))
          => (pc' = "mounted" /\ roleRates' = EmptyStore)
     /\ (pc = "mounted" /\ pc' = "ready")
          => (roleRates' = InitialRates(result[1])
                /\ FromDocumentOnly(roleRates', result[1]))
     /\ (pc = "ready" /\ pc' = "ready" /\ roleRates' # roleRates)
          => RateChange]_vars

\* the dashboard of a new document is ready, and the dashboard before it was
\* left with an entry typed by the user under a key that the new document has
C17_Witness ==
  /\ pc = "ready"
  /\ appState = "result"
  /\ roleRates = InitialRates(result[1])
  /\ \E key \in DOMAIN lastStore \cap DOMAIN roleRates :
       lastStore[key].isStr /\ roleRates[key] # lastStore[key]
  /\ \E key \in DOMAIN lastStore : lastStore[key] = StrEntry(Str0)

(***************************************************************************)
(* C18: the estimate document held by the application is never mutated     *)
(* after it is received: while a dashboard shows it, the document the      *)
(* dashboard reads is, field for field, the document that setResult        *)
(* stored, whatever rate edits and recalculations have run; a rate edit or *)
(* the mount effect leaves it as it was; and result changes only by        *)
(* handleReset, which removes it, or by an analysis that succeeds, which   *)
(* puts a whole new document in its place.                                 *)
(***************************************************************************)
\* the documents an analysis can deliver
ReceivedDocuments ==
  { WithMetadata(d, metadata) :
      d \in AppDocuments \cup OtherJson, metadata \in Metadatas }

C18_DocumentNeverMutated ==
  [][/\ pc' \in {"mounted", "ready"} => (result' # Null /\ data' = result'[1])
     /\ (InitRatesEffect \/ RateChange) => (data' = data /\ result' = result)
     /\ result' # result
          => \/ handleReset /\ result' = Null
             \/ Responds /\ result' # Null /\ result'[1] \in ReceivedDocuments]_vars

\* a rate typed by the user has given phase 1 a cost that is not the cost the
\* document states for it, and the document still states its own
C18_Witness ==
  /\ pc = "ready"
  /\ result # Null
  /\ \E key \in DOMAIN roleRates : roleRates[key].isStr
  /\ view.core.phasesWithDynamicCost[1].estimatedCost
       # result[1].phases[1].estimatedCost
  /\ data.phases[1].estimatedCost = result[1].phases[1].estimatedCost

(***************************************************************************)
(* C19: when no API credential is configured (API_KEY undefined or empty), *)
(* the call of analyzePRD that handleAnalyze starts is rejected without a  *)
(* request being sent, the only step out of 'analyzing' is to 'error', the *)
(* errorMsg shown is exactly the message of that rejection, and result is  *)
(* not set: it is null before, during and after.                           *)
(***************************************************************************)
C19_NoKeyFailsBeforeRequest ==
  [][FalsyString(apiKey) =>
       /\ Analyze => /\ appState' = "analyzing"
                     /\ call' # Null
                     /\ ~call'[1].sent
                     /\ call'[1].failure = Some(MsgNoApiKey)
       /\ (appState = "analyzing" /\ appState' # "analyzing")
            => /\ KeyMissing
               /\ appState' = "error"
               /\ errorMsg' = Some(MsgNoApiKey)
       /\ ~ENABLED Responds
       /\ ~ENABLED RequestFails
       /\ result = Null /\ result' = Null]_vars

\* the error page after an analysis attempted without an API key
C19_Witness ==
  /\ apiKey = Null
  /\ appState = "error"
  /\ errorMsg = Some(MsgNoApiKey)
  /\ result = Null
  /\ call = Null

(***************************************************************************)
(* C20: when the response of the service has no text, or a text that is    *)
(* not JSON, the analysis ends in the 'error' state with one of the two    *)
(* fixed messages of analyzePRD, and result is what it was before          *)
(* handleAnalyze started: neither handleAnalyze up to its await nor the    *)
(* catch writes result.                                                    *)
(***************************************************************************)
Unusable(response) == FalsyString(response.text) \/ response.json = Null

C20_BadResponseLeavesResult ==
  [][/\ \A response \in ResponseTexts :
          (Unusable(response) /\ ServiceResponse(response))
            => /\ appState = "analyzing" /\ appState' = "error"
               /\ errorMsg' = Some(IF FalsyString(response.text)
                                    THEN MsgNoText ELSE MsgNotJson)
               /\ result' = result
     /\ Analyze => result' = result
     /\ (appState = "analyzing" /\ appState' = "error") => result' = result
     /\ (appState = "analyzing" /\ appState' = "analyzing") => result' = result]_vars

\* the error page after a response that is not JSON, in an application that
\* has shown a document before
C20_Witness ==
  /\ appState = "error"
  /\ errorMsg = Some(MsgNotJson)
  /\ result = Null
  /\ lastStore # EmptyStore

(***************************************************************************)
(* C21: a response that is valid JSON but has not the shape of an estimate *)
(* document (a mandatory field is missing) leads to 'error' and is never   *)
(* stored as result: whenever appState is 'result', result holds a value   *)
(* that has every mandatory field.                                         *)
(***************************************************************************)
WellShaped(d) == MandatoryFields \subseteq DOMAIN d

C21_OnlyShapedDocumentsShown ==
  (appState = "result" \/ result # Null)
    => (result # Null /\ WellShaped(result[1]))

\* what the code does with such a response: the value is stored as result,
\* appState becomes 'result', and the render of the dashboard throws
C21_MisshapenIsStored ==
  [][\A d \in OtherJson :
       ServiceResponse(TextOfDocument(d))
         => /\ appState' = "result"
            /\ result' = Some(WithMetadata(d, call[1].metadata))
            /\ errorMsg' = Null
            /\ pc' = "crashed"]_vars

(***************************************************************************)
(* C22: handleSubmit invokes onAnalyze if and only if the description has  *)
(* at least 50 characters, project name and requester name are both        *)
(* non-blank and every one of the five rates is > 0; in every other case   *)
(* it sets a non-empty error message, makes no call and the application    *)
(* stays in 'input'.  A rate field edited to an entry that is no number is *)
(* stored as 0 and therefore blocks submission.                            *)
(***************************************************************************)
NonBlank(s) == \E i \in 1..Len(s) : s[i] \notin WhiteSpace

Positive(n) == ~n.nan /\ n.v > 0

Submittable(f) ==
  /\ f.text >= 50
  /\ NonBlank(f.projectName)
  /\ NonBlank(f.requesterName)
  /\ \A i \in 1..Len(FIXED_ROLES) : Positive(f.rates[FIXED_ROLES[i]])

C22_SubmitIffValid ==
  [][/\ handleSubmit
          => IF Submittable(form)
             THEN /\ appState' = "analyzing"
                  /\ call' = Some(StartedCall(apiKey, MetadataOf(form)))
             ELSE /\ appState' = "input"
                  /\ call' = Null
                  /\ form'.error # ""
                  /\ UNCHANGED <<result, errorMsg, dashboardVars>>
     /\ \A role \in EditedFields :
          InputSection_handleRateChange(role, Str0)
            => /\ form'.rates[role] = Zero
               /\ ~Submittable(form')
               /\ SubmitError(form') # ""]_vars

\* a form that is complete but for one rate field, which was emptied: the
\* submission was refused with the message about the rates
C22_Witness ==
  /\ appState = "input"
  /\ call = Null
  /\ form.text >= 50
  /\ NonBlank(form.projectName) /\ NonBlank(form.requesterName)
  /\ form.rates[FIXED_ROLES[4]] = Zero
  /\ Positive(form.rates[FIXED_ROLES[1]])
  /\ form.error = ErrRates

(***************************************************************************)
(* C23: at most one analyze request is in flight at any time: a call is    *)
(* pending exactly while appState is 'analyzing', and as long as the       *)
(* application stays in 'analyzing' the pending call is the one that       *)
(* handleAnalyze started on entering it, whatever the user does on the     *)
(* page (the example can still be loaded) and whenever the response comes. *)
(***************************************************************************)
C23_OneRequestInFlight ==
  [][/\ (call' # Null) <=> (appState' = "analyzing")
     /\ (appState = "analyzing" /\ appState' = "analyzing") => call' = call
     /\ call' # call => (appState = "analyzing" \/ appState' = "analyzing")]_vars

\* a call is pending and the form on the page, after the example was loaded,
\* is one that handleSubmit would accept
C23_Witness ==
  /\ appState = "analyzing"
  /\ call # Null
  /\ call[1].sent
  /\ SubmitError(form) = ""
  /\ MetadataOf(form) # call[1].metadata

(***************************************************************************)
(* C24: the response of an analyze request that a reset has superseded     *)
(* never changes the session state.  The application has no such request:  *)
(* handleReset never runs while a call is pending, so every outcome, a     *)
(* success or a failure, arrives in the 'analyzing' state of the session   *)
(* that started the call, and a successful one stores a document that      *)
(* carries the metadata of that call.                                      *)
(***************************************************************************)
Outcome == KeyMissing \/ RequestFails \/ Responds

C25_ResetDiscardsSession ==
  [][/\ handleReset
          => /\ appState \in {"result", "error"}
             /\ appState' = "input"
             /\ result' = Null
             /\ errorMsg' = Null
             /\ call' = Null
             /\ pc' = "unmounted"
             /\ roleRates' = EmptyStore
             /\ form' = FreshForm
     /\ (pc = "unmounted" /\ pc' # "unmounted")
          => (pc' # "crashed" => roleRates' = EmptyStore)
     /\ pc = "unmounted" => roleRates = EmptyStore]_vars

\* the input page after the reset of a session in which the user had typed
\* a rate
C25_Witness ==
  /\ appState = "input"
  /\ result = Null
  /\ errorMsg = Null
  /\ pc = "unmounted"
  /\ roleRates = EmptyStore
  /\ \E key \in DOMAIN lastStore : lastStore[key].isStr

(***************************************************************************)
(* C26: the screen state follows only the transitions input -> analyzing   *)
(* (a submit that handleSubmit accepts), analyzing -> result (a response   *)
(* that analyzePRD returns), analyzing -> error (any failure), result ->   *)
(* input and error -> input (handleReset); and in every reachable state    *)
(* appState = 'result' implies that result is not null, and errorMsg is    *)
(* not null exactly when appState = 'error'.                               *)
(***************************************************************************)
AppStates == { "input", "analyzing", "result", "error" }

ScreenInvariant ==
  /\ appState \in AppStates
  /\ appState = "result" => result # Null
  /\ (errorMsg # Null) <=> (appState = "error")

Transition(from, to) == appState = from /\ appState' = to

C26_ScreenTransitions ==
  [][/\ ScreenInvariant
     /\ ScreenInvariant'
     /\ appState' # appState
          => \/ Transition("input", "analyzing")
                  /\ handleSubmit /\ SubmitError(form) = ""
             \/ Transition("analyzing", "result")
                  /\ Responds /\ result' # Null
             \/ Transition("analyzing", "error")
                  /\ Outcome /\ result' = result
             \/ Transition("result", "input") /\ handleReset
             \/ Transition("error", "input") /\ handleReset]_vars

\* the error page of a second analysis, after a first one was shown and
\* reset: every transition has been taken
C26_Witness ==
  /\ appState = "error"
  /\ errorMsg # Null
  /\ result = Null
  /\ lastStore # EmptyStore

(***************************************************************************)
(* C27: every roadmap bar lies inside the grid: for every interval of the  *)
(* roadmap the clamped end week safeEnd is at most maxDuration, that is,   *)
(* leftPercent + widthPercent <= 100 (in weeks: leftWeeks + widthWeeks <=  *)
(* maxDuration), intervals with endWeek < startWeek included.              *)
(***************************************************************************)
BarInsideGrid(bar) ==
  /\ bar.safeEnd <= view.maxDuration
  /\ bar.leftWeeks + bar.widthWeeks <= view.maxDuration

C27_BarsInsideGrid ==
  \A j \in 1..Len(view.bars) : BarInsideGrid(view.bars[j])

\* the bars of the intervals that need no clamping of their end (endWeek is
\* at least 1 and at least startWeek) do lie inside the grid
C27_UnclampedBarsInsideGrid ==
  \A j \in 1..Len(view.bars) :
    (data.roadmap[j].endWeek >= 1
       /\ data.roadmap[j].endWeek >= data.roadmap[j].startWeek)
      => BarInsideGrid(view.bars[j])

(***************************************************************************)
(* C28: the three places that resolve the rate of a task agree, for every  *)
(* document and every state of the Rate Store: the cost that a PhaseCard   *)
(* shows for its phase (dynamicPhaseCost) is the estimatedCost that the    *)
(* engine recomputed for that phase, and the rate and the cost of each     *)
(* task in the PhaseCard and in the HTML export are the rate and the cost  *)
(* with which the engine added the task to its totals.  A rate that is no  *)
(* number is NaN in all three.                                             *)
(***************************************************************************)
PhaseAt(i) == view.core.phasesWithDynamicCost[i]

CardAgreesWithEngine(i) ==
  /\ DynamicPhaseCost(PhaseAt(i), roleRates) = PhaseAt(i).estimatedCost
  /\ \A j \in 1..Len(PhaseAt(i).tasks) :
       /\ DynamicTasks(PhaseAt(i), roleRates)[j].hourlyRate
            = view.core.taskRows[i][j].rate
       /\ DynamicTasks(PhaseAt(i), roleRates)[j].cost
            = view.core.taskRows[i][j].cost

ExportAgreesWithEngine(i) ==
  \A j \in 1..Len(PhaseAt(i).tasks) :
    /\ ExportRows(view.core.phasesWithDynamicCost, roleRates)[i][j].tRate
         = view.core.taskRows[i][j].rate
    /\ ExportRows(view.core.phasesWithDynamicCost, roleRates)[i][j].cost
         = view.core.taskRows[i][j].cost

C28_ThreeResolversAgree ==
  /\ Len(view.core.phasesWithDynamicCost) = Len(data.phases)
  /\ \A i \in 1..Len(view.core.phasesWithDynamicCost) :
       CardAgreesWithEngine(i) /\ ExportAgreesWithEngine(i)

\* the user has cleared the rate of a role, and a phase whose tasks have
\* hours and a rate of their own costs 0 in the engine and in its PhaseCard
C28_Witness ==
  /\ pc = "ready"
  /\ \E key \in DOMAIN roleRates : roleRates[key] = StrEntry(Str0)
  /\ \E i \in 1..Len(data.phases) :
       /\ PhaseAt(i).estimatedCost # data.phases[i].estimatedCost
       /\ DynamicPhaseCost(PhaseAt(i), roleRates) = Zero
       /\ \E j \in 1..Len(data.phases[i].tasks) :
            Truthy(data.phases[i].tasks[j].hours)
              /\ Truthy(data.phases[i].tasks[j].hourlyRate)

(***************************************************************************)
(* C29: after the initialization of the Rate Store and any sequence of     *)
(* accepted rate edits, the store has an entry for the key of every task   *)
(* of the document, and every entry of calculatedBreakdown satisfies       *)
(* subtotalCost = totalHours * hourlyRate, where hourlyRate is the rate    *)
(* displayed for the role (0 when the role is cleared).                    *)
(***************************************************************************)
EveryTaskKeyStored == \A p \in TaskPlaces : Has(roleRates, KeyAt(p))

SubtotalIsHoursTimesRate(entry) ==
  StrictEq(entry.subtotalCost, Mul(entry.totalHours, entry.hourlyRate))

C29_SubtotalsMatchDisplayedRates ==
  pc = "ready"
    => /\ EveryTaskKeyStored
       /\ \A j \in 1..Len(view.core.calculatedBreakdown) :
            SubtotalIsHoursTimesRate(view.core.calculatedBreakdown[j])

\* the same, for the entries whose role has a store entry that denotes a
\* number
C29_SubtotalsMatchNumericRates ==
  pc = "ready"
    => /\ EveryTaskKeyStored
       /\ \A j \in 1..Len(view.core.calculatedBreakdown) :
            ~EntryToNumber(roleRates[BreakdownKeyAt(j)]).nan
              => SubtotalIsHoursTimesRate(view.core.calculatedBreakdown[j])

(***************************************************************************)
(* C30: an accepted handleRateChange(role, value) changes only the Rate    *)
(* Store entry of the key of that role: every other entry is unchanged,    *)
(* the rates and costs of the tasks of other keys are unchanged, and       *)
(* totalCalculatedHours, the totalHours of every role, calculatedWeeks,    *)
(* maxDuration and the timeline groups are the same before and after.      *)
(***************************************************************************)
OtherEntriesKept(key) ==
  /\ DOMAIN roleRates' = DOMAIN roleRates \cup {key}
  /\ \A k \in DOMAIN roleRates \ {key} : roleRates'[k] = roleRates[k]

OtherTasksKept(key) ==
  \A p \in TaskPlaces :
    KeyAt(p) # key => view'.core.taskRows[p[1]][p[2]] = RowAt(p)

HoursAndGridKept ==
  /\ view'.core.totalCalculatedHours = view.core.totalCalculatedHours
  /\ Len(view'.core.calculatedBreakdown) = Len(view.core.calculatedBreakdown)
  /\ \A j \in 1..Len(view.core.calculatedBreakdown) :
       /\ view'.core.calculatedBreakdown[j].role
            = view.core.calculatedBreakdown[j].role
       /\ view'.core.calculatedBreakdown[j].totalHours
            = view.core.calculatedBreakdown[j].totalHours
  /\ view'.calculatedWeeks = view.calculatedWeeks
  /\ view'.maxDuration = view.maxDuration
  /\ view'.bars = view.bars
  /\ timelineGroups' = timelineGroups
  /\ data' = data

C30_EditTouchesOneRole ==
  [][\A role \in EditableRoles, newRate \in RateInputs :
       (handleRateChange(role, newRate) /\ AcceptsRate(newRate))
         => /\ roleRates'[sanitizeRole(role)] = StrEntry(newRate)
            /\ OtherEntriesKept(sanitizeRole(role))
            /\ OtherTasksKept(sanitizeRole(role))
            /\ HoursAndGridKept]_vars

\* two roles with tasks, the rate of one typed by the user, the entry of the
\* other still the number the document gave
C30_Witness ==
  /\ pc = "ready"
  /\ \E p, q \in TaskPlaces :
       /\ KeyAt(p) # KeyAt(q)
       /\ Has(roleRates, KeyAt(p)) /\ roleRates[KeyAt(p)].isStr
       /\ roleRates[KeyAt(p)].str # Str0
       /\ Has(roleRates, KeyAt(q)) /\ ~roleRates[KeyAt(q)].isStr
       /\ RowAt(q).rate = roleRates[KeyAt(q)].num
====
